---- MODULE Spec2Model ----
(***************************************************************************)
(* Model of the dynamic schema service (app/utils.py, app/services.py,     *)
(* app/main.py, app/models.py): the Pydantic code generator, the           *)
(* identifier sanitizer, the description escaper, and the create / load /  *)
(* delete / extract handlers working on the schema_models directory and    *)
(* on the interpreter's sys.modules registry.                              *)
(*                                                                         *)
(* Texts whose characters matter (descriptions, enum values, enum member   *)
(* identifiers) are sequences of one-character strings.  Type names, field *)
(* keys, schema names and ids are strings built with \o.                   *)
(***************************************************************************)
EXTENDS Integers, Sequences, FiniteSets, TLC

VARIABLES
    schemaFiles,  \* schema_models/<id>.py        : id -> generated program
    metaFiles,    \* schema_models/<id>.meta.json : id -> metadata
    sysModules,   \* sys.modules entries made by the handlers: name -> namespace
    usedUuids,    \* values uuid.uuid4() has returned so far
    response,     \* what the last handler returned or raised
    created,      \* history: id -> the SchemaDefinition it was created from
    deleted,      \* history: ids delete_schema has removed
    nCreated,     \* history: how many create_schema calls returned an id
    arg,          \* argument of the pure function under check
    result,       \* its return value
    pc            \* "call" before the pure function ran, "done" after

vars == <<schemaFiles, metaFiles, sysModules, usedUuids, response,
          created, deleted, nCreated, arg, result, pc>>

serviceVars == <<schemaFiles, metaFiles, sysModules, usedUuids, response,
                 created, deleted, nCreated>>

pureVars == <<arg, result, pc>>

-----------------------------------------------------------------------------
(* Bounds *)

MaxKeyLen == 3       \* longest raw enum value given to clean_enum_key
MaxDescLen == 3      \* longest description given to escape_description
MaxUuids == 2        \* uuid4() draws in one run (schemas and temporary models)
MaxFields == 2       \* longest top-level field list of a compile run

-----------------------------------------------------------------------------
(* Characters *)

BS == "\\"
DQ == "\""
SQ == "'"
NL == "\n"
CR == "\r"
TAB == "\t"

UpperLetters ==
    {"A","B","C","D","E","F","G","H","I","J","K","L","M",
     "N","O","P","Q","R","S","T","U","V","W","X","Y","Z"}

Digits == {"0","1","2","3","4","5","6","7","8","9"}

\* [A-Z0-9] of the regular expression in clean_enum_key
AZ09 == UpperLetters \cup Digits

\* "eacute" is e with acute accent, "EACUTE" its capital, "sz" the German
\* sharp s (whose upper() is the two letters SS).
LowerLetters == {"a","b","d","n","r","t"}
NonAsciiLetters == {"eacute", "EACUTE", "sz"}

\* str.upper() of one character (a sequence: upper() may lengthen the text)
UpperChar(c) ==
    CASE c = "a" -> <<"A">>
      [] c = "b" -> <<"B">>
      [] c = "d" -> <<"D">>
      [] c = "n" -> <<"N">>
      [] c = "r" -> <<"R">>
      [] c = "t" -> <<"T">>
      [] c = "eacute" -> <<"EACUTE">>
      [] c = "sz" -> <<"S","S">>
      [] OTHER -> <<c>>

RECURSIVE Upper(_)
Upper(s) == IF s = <<>> THEN <<>> ELSE UpperChar(Head(s)) \o Upper(Tail(s))

\* str.isidentifier(): XID_Start (letters, underscore) then XID_Continue
IdStart == UpperLetters \cup LowerLetters \cup NonAsciiLetters \cup {"_"}
IdContinue == IdStart \cup Digits

IsIdentifier(s) ==
    /\ Len(s) > 0
    /\ s[1] \in IdStart
    /\ \A i \in 1..Len(s) : s[i] \in IdContinue

\* str.replace(old, new) for a one-character old
RECURSIVE Replace(_, _, _)
Replace(s, old, new) ==
    IF s = <<>> THEN <<>>
    ELSE (IF Head(s) = old THEN new ELSE <<Head(s)>>) \o Replace(Tail(s), old, new)

-----------------------------------------------------------------------------
(* clean_enum_key *)

ENUM_PREFIX == <<"E","N","U","M","_">>

\* re.sub(r'[^A-Z0-9]', '_', key)
SubInvalid(key) == [i \in 1..Len(key) |-> IF key[i] \in AZ09 THEN key[i] ELSE "_"]

\* re.sub(r'_+', '_', key)
RECURSIVE CollapseUnderscores(_)
CollapseUnderscores(key) ==
    IF Len(key) < 2 THEN key
    ELSE IF key[1] = "_" /\ key[2] = "_" THEN CollapseUnderscores(Tail(key))
    ELSE <<key[1]>> \o CollapseUnderscores(Tail(key))

\* key.rstrip('_')
RECURSIVE RStripUnderscores(_)
RStripUnderscores(key) ==
    IF key /= <<>> /\ key[Len(key)] = "_"
    THEN RStripUnderscores(SubSeq(key, 1, Len(key) - 1))
    ELSE key

\* mutant: the trailing underscores are not stripped
clean_enum_key_no_rstrip(value) ==
    LET key == CollapseUnderscores(SubInvalid(ENUM_PREFIX \o Upper(value)))
    IN IF ~IsIdentifier(key) THEN ENUM_PREFIX \o key ELSE key

clean_enum_key(value) ==
    LET key == RStripUnderscores(
                   CollapseUnderscores(SubInvalid(ENUM_PREFIX \o Upper(value))))
    IN IF ~IsIdentifier(key) THEN ENUM_PREFIX \o key ELSE key

-----------------------------------------------------------------------------
(* escape_description *)

\* mutant: the backslash substitution runs last instead of first
escape_description_backslash_last(description) ==
    IF description = <<>> THEN <<>>
    ELSE Replace(Replace(Replace(Replace(Replace(description,
             DQ, <<BS, DQ>>),
             NL, <<BS, "n">>),
             CR, <<BS, "r">>),
             TAB, <<BS, "t">>),
             BS, <<BS, BS>>)

escape_description(description) ==
    IF description = <<>> THEN <<>>
    ELSE Replace(Replace(Replace(Replace(Replace(description,
             BS, <<BS, BS>>),
             DQ, <<BS, DQ>>),
             NL, <<BS, "n">>),
             CR, <<BS, "r">>),
             TAB, <<BS, "t">>)

-----------------------------------------------------------------------------
(* How the interpreter reads the body of a quoted string literal *)

\* the character an escape sequence \e stands for; unknown escapes keep
\* the backslash
EscapeValue(e) ==
    CASE e = BS -> <<BS>>
      [] e = DQ -> <<DQ>>
      [] e = SQ -> <<SQ>>
      [] e = "n" -> <<NL>>
      [] e = "r" -> <<CR>>
      [] e = "t" -> <<TAB>>
      [] e = "a" -> <<"BEL">>
      [] e = "b" -> <<"BSP">>
      [] e \in {NL, CR} -> <<>>
      [] OTHER -> <<BS, e>>

\* value of the literal  q body q ; ok is FALSE where the tokenizer rejects
\* it (the quote closes early, a raw line break, a backslash before the
\* closing quote)
RECURSIVE EvalLiteral(_, _)
EvalLiteral(body, q) ==
    IF body = <<>> THEN [ok |-> TRUE, value |-> <<>>]
    ELSE IF Head(body) \in {q, NL, CR} THEN [ok |-> FALSE, value |-> <<>>]
    ELSE IF Head(body) = BS
         THEN IF Len(body) < 2 THEN [ok |-> FALSE, value |-> <<>>]
              ELSE LET rest == EvalLiteral(SubSeq(body, 3, Len(body)), q)
                   IN [ok |-> rest.ok,
                       value |-> EscapeValue(body[2]) \o rest.value]
    ELSE LET rest == EvalLiteral(Tail(body), q)
         IN [ok |-> rest.ok, value |-> <<Head(body)>> \o rest.value]

-----------------------------------------------------------------------------
(* SchemaField (app/models.py) *)

\* Optional[List[...]]: <<>> is None, <<list>> is a given list
None == <<>>
Some(list) == <<list>>

\* truth value of an Optional[List]: None and [] are both false
Truthy(opt) == opt /= None /\ opt[1] /= <<>>

\* `opt or []`
OrEmpty(opt) == IF Truthy(opt) THEN opt[1] ELSE <<>>

SchemaField(key, type, description, required, enum_values, children) ==
    [key |-> key, type |-> type, description |-> description,
     required |-> required, enum_values |-> enum_values, children |-> children]

-----------------------------------------------------------------------------
(* ModelGenerator (app/utils.py).  The generated text is kept as the     *)
(* sequence of its code parts; a part is the import block, an enum class *)
(* statement or a BaseModel class statement.                             *)

TYPE_MAPPING(type) ==
    CASE type = "string" -> "str"
      [] type = "int" -> "int"
      [] type = "boolean" -> "bool"
      [] type = "float" -> "float"
      [] type = "object" -> "object"
      [] type = "array" -> "array"
      [] OTHER -> "str"

IMPORTS_TEMPLATE ==
    [kind |-> "imports", name |-> "", members |-> <<>>, fields |-> <<>>]

ModelComponent(name, code) == [name |-> name, code |-> code]

\* the annotation text: ref, or List[ref]
_get_field_type(field, parent_name) ==
    IF Truthy(field.enum_values)
    THEN [list |-> FALSE, ref |-> parent_name \o "_" \o field.key \o "_enum"]
    ELSE IF field.type = "object"
    THEN [list |-> FALSE, ref |-> parent_name \o "_" \o field.key]
    ELSE IF field.type = "array"
    THEN [list |-> TRUE, ref |-> parent_name \o "_" \o field.key \o "_item"]
    ELSE [list |-> FALSE, ref |-> TYPE_MAPPING(field.type)]

\* key: [Optional[]field_type = Field(description="...", [default=None])
_generate_field_definition(field, field_type) ==
    [key |-> field.key,
     optional |-> ~field.required,
     list |-> field_type.list,
     ref |-> field_type.ref,
     description |-> escape_description(field.description),
     default_none |-> ~field.required]

_get_nested_model_name(field, parent_name) ==
    LET base_name == parent_name \o "_" \o field.key
    IN IF field.type = "array" THEN base_name \o "_item" ELSE base_name

\* class enum_name(str, Enum): one line  IDENT = 'literal'  per value
_generate_enum_model(field, parent_name) ==
    LET enum_name == parent_name \o "_" \o field.key \o "_enum"
        values == OrEmpty(field.enum_values)
        enum_values == [i \in 1..Len(values) |->
                           [ident |-> clean_enum_key(values[i]),
                            literal |-> Replace(values[i], SQ, <<BS, SQ>>)]]
    IN ModelComponent(enum_name,
           [kind |-> "enum", name |-> enum_name,
            members |-> enum_values, fields |-> <<>>])

\* class nested_name(BaseModel): one field definition per child
_generate_nested_class(field, nested_name) ==
    LET children == OrEmpty(field.children)
        fields_code == [i \in 1..Len(children) |->
                           _generate_field_definition(children[i],
                               _get_field_type(children[i], nested_name))]
    IN ModelComponent(nested_name,
           [kind |-> "class", name |-> nested_name,
            members |-> <<>>, fields |-> fields_code])

RECURSIVE _generate_nested_models(_, _)
_generate_nested_models(fields, parent_name) ==
    IF fields = <<>> THEN <<>>
    ELSE LET field == Head(fields)
             enumModels ==
                 IF Truthy(field.enum_values)
                 THEN <<_generate_enum_model(field, parent_name)>>
                 ELSE <<>>
             nestedModels ==
                 IF field.type \in {"object", "array"} /\ Truthy(field.children)
                 THEN LET nested_name == _get_nested_model_name(field, parent_name)
                      IN _generate_nested_models(field.children[1], nested_name)
                           \o <<_generate_nested_class(field, nested_name)>>
                 ELSE <<>>
         IN enumModels \o nestedModels
              \o _generate_nested_models(Tail(fields), parent_name)

\* class model_name(BaseModel): one field definition per top-level field
_generate_main_model(schema_fields, model_name) ==
    LET fields_code == [i \in 1..Len(schema_fields) |->
                           _generate_field_definition(schema_fields[i],
                               _get_field_type(schema_fields[i], model_name))]
    IN [kind |-> "class", name |-> model_name,
        members |-> <<>>, fields |-> fields_code]

generate(schema_fields, model_name) ==
    LET nested_models == _generate_nested_models(schema_fields, model_name)
        main_model == _generate_main_model(schema_fields, model_name)
    IN <<IMPORTS_TEMPLATE>>
         \o [i \in 1..Len(nested_models) |-> nested_models[i].code]
         \o <<main_model>>

generate_pydantic_model_code(schema_fields, model_name) ==
    generate(schema_fields, model_name)

-----------------------------------------------------------------------------
(* Executing a generated program: what spec.loader.exec_module and exec   *)
(* do with the text.  A namespace maps the names bound so far to types.   *)

EmptyNs == [n \in {} |-> 0]

Builtins == {"str", "int", "float", "bool", "object"}

NoModel == [kind |-> "none", name |-> "", members |-> <<>>, fields |-> <<>>]

ScalarType(name) ==
    [kind |-> "scalar", name |-> name, members |-> <<>>, fields |-> <<>>]

\* the parser accepts the text: no class statement with an empty body, every
\* string literal well formed, every enum member name an identifier (class
\* names and field keys are identifiers in every input used here)
SyntaxOk(program) ==
    \A i \in 1..Len(program) :
        LET st == program[i]
        IN /\ st.kind = "class" =>
                /\ st.fields /= <<>>
                /\ \A k \in 1..Len(st.fields) :
                       EvalLiteral(st.fields[k].description, DQ).ok
           /\ st.kind = "enum" =>
                /\ st.members /= <<>>
                /\ \A k \in 1..Len(st.members) :
                       /\ IsIdentifier(st.members[k].ident)
                       /\ EvalLiteral(st.members[k].literal, SQ).ok

\* Enum refuses a member name used twice (TypeError)
EnumNamesReused(st) ==
    \E i, j \in 1..Len(st.members) :
        i < j /\ st.members[i].ident = st.members[j].ident

\* the members of the enum class: a member whose value repeats an earlier
\* member's is an alias and is not listed
EnumType(st) ==
    LET value(k) == EvalLiteral(st.members[k].literal, SQ).value
        canonical == {k \in 1..Len(st.members) :
                         \A j \in 1..(k - 1) : value(j) /= value(k)}
        all == [k \in 1..Len(st.members) |->
                   [name |-> st.members[k].ident, value |-> value(k)]]
        RECURSIVE Keep(_)
        Keep(k) == IF k > Len(st.members) THEN <<>>
                   ELSE (IF k \in canonical THEN <<all[k]>> ELSE <<>>) \o Keep(k + 1)
    IN [kind |-> "enum", name |-> st.name, members |-> Keep(1), fields |-> <<>>]

Resolves(ref, ns) == ref \in Builtins \/ ref \in DOMAIN ns

Resolve(ref, ns) == IF ref \in DOMAIN ns THEN ns[ref] ELSE ScalarType(ref)

\* the fields of the BaseModel class: a key annotated twice keeps its first
\* place and its last definition; a field is required unless it has a default
ModelType(st, ns) ==
    LET n == Len(st.fields)
        first == {k \in 1..n : \A j \in 1..(k - 1) : st.fields[j].key /= st.fields[k].key}
        last(k) == CHOOSE j \in 1..n :
                       /\ st.fields[j].key = st.fields[k].key
                       /\ \A m \in (j + 1)..n : st.fields[m].key /= st.fields[k].key
        info(k) == LET d == st.fields[last(k)]
                   IN [key |-> d.key,
                       required |-> ~d.default_none,
                       optional |-> d.optional,
                       list |-> d.list,
                       description |-> EvalLiteral(d.description, DQ).value,
                       type |-> Resolve(d.ref, ns)]
        RECURSIVE Keep(_)
        Keep(k) == IF k > n THEN <<>>
                   ELSE (IF k \in first THEN <<info(k)>> ELSE <<>>) \o Keep(k + 1)
    IN [kind |-> "model", name |-> st.name, members |-> <<>>, fields |-> Keep(1)]

\* the statements run in order; the first one that raises ends the run and
\* leaves the names bound before it
RECURSIVE ExecStatements(_, _)
ExecStatements(stmts, ns) ==
    IF stmts = <<>> THEN [error |-> "", ns |-> ns]
    ELSE LET st == Head(stmts)
         IN IF st.kind = "enum"
            THEN IF EnumNamesReused(st)
                 THEN [error |-> "TypeError", ns |-> ns]
                 ELSE ExecStatements(Tail(stmts), (st.name :> EnumType(st)) @@ ns)
            ELSE IF st.kind = "class"
            THEN IF \E k \in 1..Len(st.fields) : ~Resolves(st.fields[k].ref, ns)
                 THEN [error |-> "NameError", ns |-> ns]
                 ELSE ExecStatements(Tail(stmts), (st.name :> ModelType(st, ns)) @@ ns)
            ELSE ExecStatements(Tail(stmts), ns)

ExecModule(program) ==
    IF ~SyntaxOk(program) THEN [error |-> "SyntaxError", ns |-> EmptyNs]
    ELSE ExecStatements(program, EmptyNs)

-----------------------------------------------------------------------------
(* Ids.  A uuid is the sequence of its hyphen-separated groups. *)

RECURSIVE Join(_, _)
Join(groups, sep) ==
    IF groups = <<>> THEN ""
    ELSE IF Len(groups) = 1 THEN groups[1]
    ELSE groups[1] \o sep \o Join(Tail(groups), sep)

\* str(uuid)
Hyphenated(uuid) == Join(uuid, "-")

\* schema_id.replace('-', '_')
Underscored(uuid) == Join(uuid, "_")

\* the values uuid.uuid4() may return in one run; when all are used, no
\* further handler that needs a new id runs
Uuid4 == {<<"7c", ToString(i)>> : i \in 1..MaxUuids}

-----------------------------------------------------------------------------
(* Handlers (app/main.py, app/services.py).  Each handler is a coroutine  *)
(* that never suspends between its first and last statement (the only    *)
(* awaits are calls of such coroutines), so on the event loop a handler  *)
(* runs as one step and requests interleave handler by handler.          *)

Response(op, schema_id, status, detail, model) ==
    [op |-> op, schema_id |-> schema_id, status |-> status,
     detail |-> detail, model |-> model]

\* SchemaDefinition.name: pattern ^[a-zA-Z][a-zA-Z0-9_]*$
NamePattern == {"Doc"}

\* request validation by the SchemaDefinition model
SchemaDefinitionValid(request) == request.name \in NamePattern

\* str(datetime.now(UTC)): the handlers store it and hand it back unread
CreatedAt == "2026-01-01 00:00:00+00:00"

\* uuid.uuid4() does not repeat a value
FreshUuids == Uuid4 \ usedUuids

\* POST /schemas: create_schema -> SchemaService.create_schema.  A request
\* the SchemaDefinition model rejects gets 422; the generator does not raise
\* on a validated request and the two writes are taken to succeed, so the
\* except branch (500) is not entered.
CreateSchema(request) ==
    /\ IF ~SchemaDefinitionValid(request)
       THEN /\ response' = Response("create_schema", "", 422, "ValidationError", NoModel)
            /\ UNCHANGED <<schemaFiles, metaFiles, sysModules, usedUuids,
                           created, deleted, nCreated>>
       ELSE \E uuid \in FreshUuids :
                LET schema_id == Hyphenated(uuid)
                    model_name == request.name \o "_" \o Underscored(uuid)
                    model_code == generate_pydantic_model_code(request.fields, model_name)
                    metadata == [id |-> schema_id, name |-> request.name,
                                 description |-> request.description,
                                 created_at |-> CreatedAt]
                IN /\ usedUuids' = usedUuids \cup {uuid}
                   /\ schemaFiles' = (schema_id :> model_code) @@ schemaFiles
                   /\ metaFiles' = (schema_id :> metadata) @@ metaFiles
                   /\ nCreated' = nCreated + 1
                   /\ created' = (schema_id :> request) @@ created
                   /\ response' = Response("create_schema", schema_id, 200, "", NoModel)
                   /\ UNCHANGED <<sysModules, deleted>>
    /\ UNCHANGED pureVars

\* mutant: no existence check, so the open() of a missing file is reported
\* as a load error
load_schema_model_no_check(uuid) ==
    LET schema_id == Hyphenated(uuid)
    IN IF schema_id \notin DOMAIN schemaFiles \/ schema_id \notin DOMAIN metaFiles
       THEN [status |-> 500, detail |-> "FileNotFoundError", model |-> NoModel,
             modules |-> sysModules]
       ELSE LET metadata == metaFiles[schema_id]
                run == ExecModule(schemaFiles[schema_id])
                modules == (("schema_" \o schema_id) :> run.ns) @@ sysModules
                model_name == metadata.name \o "_" \o Underscored(uuid)
            IN IF run.error /= ""
               THEN [status |-> 500, detail |-> run.error, model |-> NoModel,
                     modules |-> modules]
               ELSE IF model_name \notin DOMAIN run.ns
               THEN [status |-> 500, detail |-> "AttributeError", model |-> NoModel,
                     modules |-> modules]
               ELSE [status |-> 200, detail |-> "", model |-> run.ns[model_name],
                     modules |-> modules]

\* mutant: the module is registered under the schema's name, and a module
\* already registered under that name is used instead of the file
load_schema_model_by_name(uuid) ==
    LET schema_id == Hyphenated(uuid)
    IN IF schema_id \notin DOMAIN schemaFiles \/ schema_id \notin DOMAIN metaFiles
       THEN [status |-> 404, detail |-> "Schema not found", model |-> NoModel,
             modules |-> sysModules]
       ELSE LET metadata == metaFiles[schema_id]
                spec_name == "schema_" \o metadata.name
                run == IF spec_name \in DOMAIN sysModules
                       THEN [error |-> "", ns |-> sysModules[spec_name]]
                       ELSE ExecModule(schemaFiles[schema_id])
                modules == (spec_name :> run.ns) @@ sysModules
                model_name == metadata.name \o "_" \o Underscored(uuid)
            IN IF run.error /= ""
               THEN [status |-> 500, detail |-> run.error, model |-> NoModel,
                     modules |-> modules]
               ELSE IF model_name \notin DOMAIN run.ns
               THEN [status |-> 500, detail |-> "AttributeError", model |-> NoModel,
                     modules |-> modules]
               ELSE [status |-> 200, detail |-> "", model |-> run.ns[model_name],
                     modules |-> modules]

\* SchemaService.load_schema_model: the status and root type returned (or the
\* HTTPException raised) and sys.modules as the call leaves it
load_schema_model(uuid) ==
    LET schema_id == Hyphenated(uuid)
    IN IF schema_id \notin DOMAIN schemaFiles \/ schema_id \notin DOMAIN metaFiles
       THEN [status |-> 404, detail |-> "Schema not found", model |-> NoModel,
             modules |-> sysModules]
       ELSE LET metadata == metaFiles[schema_id]
                run == ExecModule(schemaFiles[schema_id])
                modules == (("schema_" \o schema_id) :> run.ns) @@ sysModules
                model_name == metadata.name \o "_" \o Underscored(uuid)
            IN IF run.error /= ""
               THEN [status |-> 500, detail |-> run.error, model |-> NoModel,
                     modules |-> modules]
               ELSE IF model_name \notin DOMAIN run.ns
               THEN [status |-> 500, detail |-> "AttributeError", model |-> NoModel,
                     modules |-> modules]
               ELSE [status |-> 200, detail |-> "", model |-> run.ns[model_name],
                     modules |-> modules]

\* GET /schemas/{schema_id}: get_schema
GetSchema(uuid) ==
    LET loaded == load_schema_model(uuid)
    IN /\ sysModules' = loaded.modules
       /\ response' = Response("get_schema", Hyphenated(uuid), loaded.status,
                               loaded.detail, loaded.model)
       /\ UNCHANGED <<schemaFiles, metaFiles, usedUuids, created, deleted, nCreated>>
       /\ UNCHANGED pureVars

\* DELETE /schemas/{schema_id}: delete_schema -> SchemaService.delete_schema,
\* which removes both artifacts of the id
DeleteSchema(uuid) ==
    LET schema_id == Hyphenated(uuid)
        keepS == DOMAIN schemaFiles \ {schema_id}
        keepM == DOMAIN metaFiles \ {schema_id}
    IN /\ IF schema_id \notin DOMAIN schemaFiles /\ schema_id \notin DOMAIN metaFiles
          THEN /\ response' = Response("delete_schema", schema_id, 404,
                                       "Schema not found", NoModel)
               /\ UNCHANGED <<schemaFiles, metaFiles, deleted>>
          ELSE /\ schemaFiles' = [i \in keepS |-> schemaFiles[i]]
               /\ metaFiles' = [i \in keepM |-> metaFiles[i]]
               /\ deleted' = deleted \cup {schema_id}
               /\ response' = Response("delete_schema", schema_id, 200, "", NoModel)
       /\ UNCHANGED <<sysModules, usedUuids, created, nCreated>>
       /\ UNCHANGED pureVars

\* what the extraction collaborator's call does: it returns, or raises with
\* a message the handler classifies
ExtractorOutcomes == {"responses", "rate_limit", "invalid_api_key", "other"}

ExtractorStatus(outcome) ==
    CASE outcome = "responses" -> 200
      [] outcome = "rate_limit" -> 429
      [] outcome = "invalid_api_key" -> 401
      [] OTHER -> 500

\* ExtractRequest.validate_api_key: startswith('sk-') and len(v) >= 32
SkPrefixed == {"sk-0123456789abcdef0123456789abc", "sk-short"}

ExtractRequestValid(api_key) == api_key \in SkPrefixed /\ Len(api_key) >= 32

\* POST /extract rejected by the ExtractRequest model (the other extract
\* actions are the requests it accepts)
ExtractInvalid(api_key) ==
    /\ ~ExtractRequestValid(api_key)
    /\ response' = Response("extract", "", 422, "ValidationError", NoModel)
    /\ UNCHANGED <<schemaFiles, metaFiles, sysModules, usedUuids,
                   created, deleted, nCreated>>
    /\ UNCHANGED pureVars

\* POST /extract with a schema_id: the extractor is called only with a
\* loaded model
ExtractById(uuid) ==
    LET loaded == load_schema_model(uuid)
    IN /\ sysModules' = loaded.modules
       /\ IF loaded.status /= 200
          THEN response' = Response("extract", Hyphenated(uuid), loaded.status,
                                    loaded.detail, NoModel)
          ELSE \E outcome \in ExtractorOutcomes :
                   response' = Response("extract", Hyphenated(uuid),
                                        ExtractorStatus(outcome), outcome, NoModel)
       /\ UNCHANGED <<schemaFiles, metaFiles, usedUuids, created, deleted, nCreated>>
       /\ UNCHANGED pureVars

\* POST /extract with inline fields (no schema_id)
ExtractInline(fields) ==
    /\ IF ~Truthy(fields)
       THEN /\ response' = Response("extract", "", 400,
                                    "Either schema_id or fields must be provided",
                                    NoModel)
            /\ UNCHANGED <<sysModules, usedUuids>>
       ELSE \E uuid \in FreshUuids :
                   LET temp_model_name == "TempModel_" \o Underscored(uuid)
                       model_code == generate_pydantic_model_code(fields[1], temp_model_name)
                       run == ExecModule(model_code)
                   IN /\ usedUuids' = usedUuids \cup {uuid}
                      /\ IF run.error /= ""
                         THEN /\ response' = Response("extract", "", 500,
                                                      run.error, NoModel)
                              /\ UNCHANGED sysModules
                         ELSE /\ sysModules' = (temp_model_name :> run.ns) @@ sysModules
                              /\ IF temp_model_name \notin DOMAIN run.ns
                                 THEN response' = Response("extract", "", 500,
                                                           "AttributeError", NoModel)
                                 ELSE \E outcome \in ExtractorOutcomes :
                                          response' = Response("extract", "",
                                                          ExtractorStatus(outcome),
                                                          outcome, NoModel)
    /\ UNCHANGED <<schemaFiles, metaFiles, created, deleted, nCreated>>
    /\ UNCHANGED pureVars

-----------------------------------------------------------------------------
(* Inputs.  The values are as the request models leave them: strings     *)
(* stripped of outer whitespace and at most 100 characters long.         *)

\* one description, with a quote and a backslash in it
Desc == <<"n", DQ, BS>>

Leaf(key, type, required) == SchemaField(key, type, Desc, required, None, None)

\* requests of the service runs
ServiceNames == {"Doc", "9x"}

ServiceFieldLists ==
    { <<Leaf("a", "string", TRUE)>>,
      <<Leaf("a", "int", FALSE),
        SchemaField("b", "string", Desc, TRUE, Some(<<<<"a">>, <<"b">>>>), None)>>,
      <<SchemaField("a", "object", Desc, TRUE, None, None)>> }

ServiceRequests ==
    [name : ServiceNames, description : {Desc}, fields : ServiceFieldLists]

ApiKeys == SkPrefixed \cup {"0123456789abcdef0123456789abcdef"}

\* field trees of the compile runs: up to three levels
EnumChoices == {None, Some(<<>>), Some(<<<<"a">>>>), Some(<<<<"a">>, <<"A">>>>),
                Some(<<<<"a", SQ>>, <<BS>>>>)}

GrandChildren ==
    {SchemaField("y", "int", Desc, TRUE, e, None) : e \in {None, Some(<<<<"a">>>>)}}

Children ==
    {SchemaField("x", t, Desc, FALSE, e, c) :
        t \in {"string", "object", "array"},
        e \in {None, Some(<<<<"a">>>>)},
        c \in {None} \cup {Some(<<g>>) : g \in GrandChildren}}

TopKeys == {"a", "a_item", "a_enum"}

TopFields ==
    {SchemaField(k, t, Desc, r, e, c) :
        k \in TopKeys, t \in {"string", "date", "object", "array"},
        r \in BOOLEAN, e \in EnumChoices,
        c \in {None, Some(<<>>)} \cup {Some(<<x>>) : x \in Children}}

SiblingFields ==
    {SchemaField(k, t, Desc, TRUE, e, c) :
        k \in TopKeys, t \in {"string", "object", "array"},
        e \in {None, Some(<<<<"a">>>>)},
        c \in {None, Some(<<Leaf("x", "int", TRUE)>>)}}

\* sibling keys are unique
DistinctKeys(fields) ==
    \A i, j \in 1..Len(fields) : i /= j => fields[i].key /= fields[j].key

CompileFieldLists ==
    {<<>>} \cup {<<f>> : f \in TopFields}
      \cup {fs \in UNION {[1..n -> SiblingFields] : n \in 2..MaxFields} :
               DistinctKeys(fs)}

CompileRequests ==
    [name : {"Doc"}, description : {Desc}, fields : CompileFieldLists]

Alphabet(chars, n) == UNION {[1..k -> chars] : k \in 0..n}

KeyChars == {"d", "A", "3", "-", "_", "eacute", "sz"}

DescChars == {BS, DQ, NL, CR, TAB, "n", "a"}

-----------------------------------------------------------------------------
(* Specifications *)

ServiceInit ==
    /\ schemaFiles = EmptyNs
    /\ metaFiles = EmptyNs
    /\ sysModules = EmptyNs
    /\ usedUuids = {}
    /\ response = Response("none", "", 0, "", NoModel)
    /\ created = EmptyNs
    /\ deleted = {}
    /\ nCreated = 0

Init ==
    /\ ServiceInit
    /\ arg = <<>>
    /\ result = <<>>
    /\ pc = "idle"

Next ==
    \/ \E request \in ServiceRequests : CreateSchema(request)
    \/ \E uuid \in Uuid4 : GetSchema(uuid)
    \/ \E uuid \in Uuid4 : DeleteSchema(uuid)
    \/ \E api_key \in ApiKeys : ExtractInvalid(api_key)
    \/ \E uuid \in Uuid4 : ExtractById(uuid)
    \/ \E fields \in {None, Some(<<>>)} \cup {Some(fs) : fs \in ServiceFieldLists} :
          ExtractInline(fields)

Spec == Init /\ [][Next]_vars

\* one schema compiled from a field tree, then loaded
NextCompile ==
    \/ \E request \in CompileRequests : usedUuids = {} /\ CreateSchema(request)
    \/ \E uuid \in Uuid4 : GetSchema(uuid)

SpecCompile == Init /\ [][NextCompile]_vars

\* clean_enum_key applied to every raw value up to MaxKeyLen characters
InitSanitize ==
    /\ ServiceInit
    /\ arg \in Alphabet(KeyChars, MaxKeyLen)
    /\ result = <<>>
    /\ pc = "call"

CallCleanEnumKey ==
    /\ pc = "call"
    /\ result' = clean_enum_key(arg)
    /\ pc' = "done"
    /\ UNCHANGED <<arg, serviceVars>>

SpecSanitize == InitSanitize /\ [][CallCleanEnumKey]_vars

\* escape_description applied to every description up to MaxDescLen characters
InitEscape ==
    /\ ServiceInit
    /\ arg \in Alphabet(DescChars, MaxDescLen)
    /\ result = <<>>
    /\ pc = "call"

CallEscapeDescription ==
    /\ pc = "call"
    /\ result' = escape_description(arg)
    /\ pc' = "done"
    /\ UNCHANGED <<arg, serviceVars>>

SpecEscape == InitEscape /\ [][CallEscapeDescription]_vars

-----------------------------------------------------------------------------
(* Properties *)

ScalarNames == {"str", "int", "float", "bool"}

\* the root type name create_schema and load_schema_model agree on
RootTypeName(uuid) == created[Hyphenated(uuid)].name \o "_" \o Underscored(uuid)

\* the schemas created and not deleted
Live(uuid) == Hyphenated(uuid) \in DOMAIN created /\ Hyphenated(uuid) \notin deleted

\* the last handler was a load of this schema
LoadedLast(uuid) ==
    /\ Live(uuid)
    /\ response.op = "get_schema"
    /\ response.schema_id = Hyphenated(uuid)

RequiredKeys(fields) == {fields[i].key : i \in {k \in 1..Len(fields) : fields[k].required}}

OptionalKeys(fields) == {fields[i].key : i \in {k \in 1..Len(fields) : ~fields[k].required}}

\* C1: round trip: a schema created from a non-empty field list loads, and
\* the loaded root type has the input's required keys as required fields and
\* every other input key as an optional field.
C1_RoundTripLoads ==
    \A uuid \in Uuid4 :
        (LoadedLast(uuid) /\ created[Hyphenated(uuid)].fields /= <<>>) =>
            /\ response.status = 200
            /\ RequiredKeys(response.model.fields)
                   = RequiredKeys(created[Hyphenated(uuid)].fields)
            /\ OptionalKeys(response.model.fields)
                   = OptionalKeys(created[Hyphenated(uuid)].fields)

\* C2: in every generated program, each enum, object or array-item type name
\* a field definition refers to is declared by a class statement placed
\* before the class that holds the field definition.
C2_NoForwardOrDanglingReference ==
    \A id \in DOMAIN schemaFiles :
        LET program == schemaFiles[id]
        IN \A i \in 1..Len(program) :
               program[i].kind = "class" =>
                   \A k \in 1..Len(program[i].fields) :
                       program[i].fields[k].ref \notin ScalarNames =>
                           \E j \in 1..(i - 1) :
                               /\ program[j].kind \in {"class", "enum"}
                               /\ program[j].name = program[i].fields[k].ref

\* the enumerated fields of a field tree, each with the name of its enum type
RECURSIVE EnumFields(_, _)
EnumFields(fields, scope) ==
    IF fields = <<>> THEN {}
    ELSE LET field == Head(fields)
             here == IF Truthy(field.enum_values)
                     THEN {[name |-> scope \o "_" \o field.key \o "_enum",
                            values |-> field.enum_values[1]]}
                     ELSE {}
             below == IF field.type \in {"object", "array"} /\ Truthy(field.children)
                      THEN EnumFields(field.children[1],
                               scope \o "_" \o field.key
                                 \o (IF field.type = "array" THEN "_item" ELSE ""))
                      ELSE {}
         IN here \cup below \cup EnumFields(Tail(fields), scope)

\* C3: once a schema is loaded, the enum type of every enumerated field has
\* one member per input value, in input order, each with the input string
\* as its value.
C3_EnumValuesPreserved ==
    \A uuid \in Uuid4 :
        LoadedLast(uuid) =>
            LET ns == sysModules["schema_" \o Hyphenated(uuid)]
            IN \A e \in EnumFields(created[Hyphenated(uuid)].fields, RootTypeName(uuid)) :
                   /\ e.name \in DOMAIN ns
                   /\ ns[e.name].kind = "enum"
                   /\ [k \in 1..Len(ns[e.name].members) |-> ns[e.name].members[k].value]
                          = e.values

\* what the schema's own field list compiles and loads to, on its own
OwnRun(uuid) ==
    ExecModule(generate_pydantic_model_code(created[Hyphenated(uuid)].fields,
                                            RootTypeName(uuid)))

\* C4: every create_schema returns an id no earlier call returned, also for
\* a repeated name; a load of a schema returns the root type compiled from
\* that schema's own field list, and the module a load registers holds that
\* schema's own types, whatever was created or loaded before.
C4_SameNameSchemasIsolated ==
    /\ Cardinality(DOMAIN created) = nCreated
    /\ \A uuid \in Uuid4 :
           Hyphenated(uuid) \in DOMAIN created =>
               /\ (LoadedLast(uuid) /\ OwnRun(uuid).error = "") =>
                      /\ response.status = 200
                      /\ response.model = OwnRun(uuid).ns[RootTypeName(uuid)]
                      /\ response.model.name = RootTypeName(uuid)
               /\ (LoadedLast(uuid) /\ OwnRun(uuid).error /= "") =>
                      /\ response.status = 500
                      /\ response.detail = OwnRun(uuid).error
               /\ ("schema_" \o Hyphenated(uuid)) \in DOMAIN sysModules =>
                      sysModules["schema_" \o Hyphenated(uuid)] = OwnRun(uuid).ns

\* two live schemas of one name and different field lists, both loaded, the
\* second one last
C4_Witness ==
    \E u1, u2 \in Uuid4 :
        /\ u1 /= u2
        /\ Live(u1) /\ Live(u2)
        /\ created[Hyphenated(u1)].name = created[Hyphenated(u2)].name
        /\ created[Hyphenated(u1)].fields /= created[Hyphenated(u2)].fields
        /\ ("schema_" \o Hyphenated(u1)) \in DOMAIN sysModules
        /\ LoadedLast(u2)
        /\ response.status = 200

C6_LoadLeavesRegistryUnchanged == [][sysModules' = sysModules]_vars

\* C7: no schema is created from an empty field list: create_schema with
\* fields = [] reports an error and persists no program.
C7_EmptyFieldListRejected ==
    /\ \A id \in DOMAIN schemaFiles : created[id].fields /= <<>>
    /\ (response.op = "create_schema" /\ response.status = 200)
           => created[response.schema_id].fields /= <<>>

\* C8: clean_enum_key returns a non-empty identifier: first character a
\* letter or underscore, the others in [A-Z0-9_], no two underscores in a
\* row and none at the end.
C8_CleanEnumKeyIsIdentifier ==
    pc = "done" =>
        /\ Len(result) > 0
        /\ result[1] \in UpperLetters \cup LowerLetters \cup {"_"}
        /\ \A i \in 2..Len(result) : result[i] \in AZ09 \cup {"_"}
        /\ \A i \in 1..(Len(result) - 1) : ~(result[i] = "_" /\ result[i + 1] = "_")
        /\ result[Len(result)] /= "_"
        /\ IsIdentifier(result)

\* the value "3-d"
C8_Witness ==
    /\ pc = "done"
    /\ arg = <<"3", "-", "d">>
    /\ result = <<"E", "N", "U", "M", "_", "3", "_", "D">>

Count(s, chars) == Cardinality({i \in 1..Len(s) : s[i] \in chars})

\* the backslashes right before position i
RECURSIVE BackslashesBefore(_, _)
BackslashesBefore(s, i) ==
    IF i > 1 /\ s[i - 1] = BS THEN 1 + BackslashesBefore(s, i - 1) ELSE 0

\* C9: read once as the body of a double-quoted literal, the escaped
\* description gives the description back; the escaped text has no
\* unescaped double quote and no raw newline, carriage return or tab; and
\* the backslashes the later substitutions put in are not doubled.
C9_EscapeRoundTrips ==
    pc = "done" =>
        /\ EvalLiteral(result, DQ) = [ok |-> TRUE, value |-> arg]
        /\ \A i \in 1..Len(result) :
               /\ result[i] \notin {NL, CR, TAB}
               /\ result[i] = DQ => BackslashesBefore(result, i) % 2 = 1
        /\ Count(result, {BS}) = 2 * Count(arg, {BS}) + Count(arg, {DQ, NL, CR, TAB})

\* a backslash followed by a quote
C9_Witness ==
    /\ pc = "done"
    /\ arg = <<BS, DQ>>
    /\ result = <<BS, BS, BS, DQ>>

\* sibling keys are unique at every level of the tree
RECURSIVE DistinctKeysTree(_)
DistinctKeysTree(fields) ==
    /\ DistinctKeys(fields)
    /\ \A i \in 1..Len(fields) : DistinctKeysTree(OrEmpty(fields[i].children))

\* C10: in a program compiled from a tree with distinct sibling keys, every
\* enum type and nested type is declared once: no two class statements
\* have the same name.
C10_TypeNamesDeclaredOnce ==
    \A id \in DOMAIN schemaFiles :
        DistinctKeysTree(created[id].fields) =>
            LET program == schemaFiles[id]
            IN \A i, j \in 1..Len(program) :
                   (i < j /\ program[i].kind /= "imports" /\ program[j].kind /= "imports")
                       => program[i].name /= program[j].name

====
